---- MODULE Spec2Model ----
\* Inflatable Fungible Asset (IFA) schema of rgb-schemas: the occurrence tables
\* of ifa_schema, the three validation scripts (genesis, transfer, inflation)
\* and the supply queries of IfaWrapper, over a contract state built from
\* accepted operations.
EXTENDS Integers, Sequences, FiniteSets

\* ---------------------------------------------------------------------------
\* Bounds of the model
\* ---------------------------------------------------------------------------
\* Width in bits of the modelled Amount register (the schema's amounts are
\* FungibleType::Unsigned64Bit; the model keeps the register arithmetic and
\* shrinks the width so that overflow is reachable).
AmountBits == 2
\* Largest number of assignments of one slot drawn for one operation.
MaxAssign == 2
\* Largest number of values of one slot drawn when a slot count is varied.
MaxCount == 2
\* Largest number of unspent assignments of one slot kept in the contract state.
MaxUnspent == 2
\* Largest number of issuedSupply global values kept in the contract state.
MaxIssuances == 2

Modulus == 2 ^ AmountBits
MaxAmount == Modulus - 1
Amount == 0..MaxAmount

\* A failed register (AluVM registers hold None after a failed checked operation).
None == -1

\* ---------------------------------------------------------------------------
\* Names of the schema
\* ---------------------------------------------------------------------------
GS_NOMINAL == "spec"
GS_TERMS == "terms"
GS_ISSUED_SUPPLY == "issuedSupply"
GS_MAX_SUPPLY == "maxSupply"
GS_REJECT_LIST_URL == "rejectListUrl"
GS_LINKED_FROM_CONTRACT == "linkedFromContract"
GS_LINKED_TO_CONTRACT == "linkedToContract"
MS_ALLOWED_INFLATION == "allowedInflation"
OS_ASSET == "assetOwner"
OS_INFLATION == "inflationAllowance"
OS_LINK == "linkRight"
TS_GENESIS == "genesis"
TS_TRANSFER == "transfer"
TS_INFLATION == "inflate"
TS_BURN == "burn"
TS_LINK == "link"

GlobalSlots == {GS_NOMINAL, GS_TERMS, GS_ISSUED_SUPPLY, GS_MAX_SUPPLY, GS_REJECT_LIST_URL,
                GS_LINKED_FROM_CONTRACT, GS_LINKED_TO_CONTRACT}
MetaSlots == {MS_ALLOWED_INFLATION}
OwnedSlots == {OS_ASSET, OS_INFLATION, OS_LINK}
Kinds == {TS_GENESIS, TS_TRANSFER, TS_INFLATION, TS_BURN, TS_LINK}

ERRNO_ISSUED_MISMATCH == "IssuedMismatch"
ERRNO_NON_EQUAL_IN_OUT == "NonEqualInOut"
ERRNO_INFLATION_MISMATCH == "InflationMismatch"
ERRNO_INFLATION_EXCEEDS_ALLOWANCE == "InflationExceedsAllowance"
ConservationErrors == {ERRNO_ISSUED_MISMATCH, ERRNO_NON_EQUAL_IN_OUT, ERRNO_INFLATION_MISMATCH,
                       ERRNO_INFLATION_EXCEEDS_ALLOWANCE}
StructuralError == "StructuralError"
Accept == "Accept"
Pending == "pending"

Once == "Once"
NoneOrOnce == "NoneOrOnce"
NoneOrMore == "NoneOrMore"
OnceOrMore == "OnceOrMore"

NoValidator == "none"
LibGenesis == "ifa_lib_genesis"
LibTransfer == "ifa_lib_transfer"
LibInflation == "ifa_lib_inflation"

\* ---------------------------------------------------------------------------
\* The schema: occurrence tables and bound validators, per operation kind
\* ---------------------------------------------------------------------------
NoSlots == << >>

\* GenesisSchema with the spec global declared NoneOrMore instead of Once.
GenesisSchema_many_spec ==
    [metadata |-> {},
     globals |-> [spec |-> NoneOrMore, terms |-> Once, issuedSupply |-> Once, maxSupply |-> Once,
                  rejectListUrl |-> NoneOrOnce, linkedFromContract |-> NoneOrOnce],
     inputs |-> NoSlots,
     assignments |-> [assetOwner |-> NoneOrMore, inflationAllowance |-> NoneOrMore,
                      linkRight |-> NoneOrOnce],
     validator |-> LibGenesis]

GenesisSchema ==
    [metadata |-> {},
     globals |-> [spec |-> Once, terms |-> Once, issuedSupply |-> Once, maxSupply |-> Once,
                  rejectListUrl |-> NoneOrOnce, linkedFromContract |-> NoneOrOnce],
     inputs |-> NoSlots,
     assignments |-> [assetOwner |-> NoneOrMore, inflationAllowance |-> NoneOrMore,
                      linkRight |-> NoneOrOnce],
     validator |-> LibGenesis]

TransferSchema ==
    [metadata |-> {},
     globals |-> NoSlots,
     inputs |-> [assetOwner |-> NoneOrMore, inflationAllowance |-> NoneOrMore,
                 linkRight |-> NoneOrOnce],
     assignments |-> [assetOwner |-> NoneOrMore, inflationAllowance |-> NoneOrMore,
                      linkRight |-> NoneOrOnce],
     validator |-> LibTransfer]

InflationSchema ==
    [metadata |-> {MS_ALLOWED_INFLATION},
     globals |-> [issuedSupply |-> Once],
     inputs |-> [inflationAllowance |-> OnceOrMore],
     assignments |-> [assetOwner |-> OnceOrMore, inflationAllowance |-> NoneOrMore],
     validator |-> LibInflation]

\* BurnSchema with the transfer validator bound to it.
BurnSchema_validated ==
    [metadata |-> {},
     globals |-> NoSlots,
     inputs |-> [assetOwner |-> NoneOrMore, inflationAllowance |-> NoneOrMore,
                 linkRight |-> NoneOrOnce],
     assignments |-> NoSlots,
     validator |-> LibTransfer]

BurnSchema ==
    [metadata |-> {},
     globals |-> NoSlots,
     inputs |-> [assetOwner |-> NoneOrMore, inflationAllowance |-> NoneOrMore,
                 linkRight |-> NoneOrOnce],
     assignments |-> NoSlots,
     validator |-> NoValidator]

\* LinkSchema with the linkRight input declared NoneOrOnce instead of Once.
LinkSchema_optional_right ==
    [metadata |-> {},
     globals |-> [linkedToContract |-> Once],
     inputs |-> [linkRight |-> NoneOrOnce],
     assignments |-> NoSlots,
     validator |-> NoValidator]

LinkSchema ==
    [metadata |-> {},
     globals |-> [linkedToContract |-> Once],
     inputs |-> [linkRight |-> Once],
     assignments |-> NoSlots,
     validator |-> NoValidator]

ifa_schema ==
    [genesis |-> GenesisSchema, transfer |-> TransferSchema, inflate |-> InflationSchema,
     burn |-> BurnSchema, link |-> LinkSchema]

\* ---------------------------------------------------------------------------
\* Occurrence checking
\* ---------------------------------------------------------------------------
OccurrenceCheck(count, occ) ==
    CASE occ = Once -> count = 1
      [] occ = NoneOrOnce -> count \in {0, 1}
      [] occ = NoneOrMore -> count >= 0
      [] occ = OnceOrMore -> count >= 1

\* One role of an operation against its table: a declared slot obeys its
\* occurrence constraint, a slot the table does not declare must be absent.
RoleOK(values, table) ==
    \A slot \in DOMAIN values :
        IF slot \in DOMAIN table
        THEN OccurrenceCheck(Len(values[slot]), table[slot])
        ELSE Len(values[slot]) = 0

\* Metadata is a set of required types: each present once, nothing else.
MetaOK(values, required) ==
    \A slot \in DOMAIN values :
        Len(values[slot]) = (IF slot \in required THEN 1 ELSE 0)

StructOK(o, sch) ==
    /\ MetaOK(o.meta, sch.metadata)
    /\ RoleOK(o.g, sch.globals)
    /\ RoleOK(o.in, sch.inputs)
    /\ RoleOK(o.out, sch.assignments)

\* ---------------------------------------------------------------------------
\* Register arithmetic and the contract instructions the scripts use
\* ---------------------------------------------------------------------------
RECURSIVE CheckedSum(_)
\* Sum of a list of amounts, None once a partial sum leaves the register range.
CheckedSum(s) ==
    IF Len(s) = 0 THEN 0
    ELSE LET rest == CheckedSum(Tail(s))
         IN IF rest = None \/ rest + Head(s) > MaxAmount THEN None ELSE rest + Head(s)

\* add.uw: the addition wrapping modulo the register width instead of failing.
add_uw(a, b) == IF a = None \/ b = None THEN None ELSE (a + b) % Modulus

\* add.uc: unsigned checked addition, None on overflow.
add_uc(a, b) == IF a = None \/ b = None \/ a + b > MaxAmount THEN None ELSE a + b

\* sub.uc a,b: unsigned checked subtraction a - b, None when the result is < 0.
sub_uc(a, b) == IF a = None \/ b = None \/ a < b THEN None ELSE a - b

\* ldg slot,idx: the idx-th (0-based) value of a global slot of the operation.
ldg(o, slot, idx) == IF idx < Len(o.g[slot]) THEN o.g[slot][idx + 1] ELSE None

\* ldm slot: the metadata value of the operation.
ldm(o, slot) == IF Len(o.meta[slot]) >= 1 THEN o.meta[slot][1] ELSE None

\* sas slot: the sum of the slot's output assignments equals the register.
sas(o, slot, reg) ==
    /\ reg # None
    /\ CheckedSum(o.out[slot]) # None
    /\ CheckedSum(o.out[slot]) = reg

\* sps slot: the sum of the slot's input assignments equals the register.
sps(o, slot, reg) ==
    /\ reg # None
    /\ CheckedSum(o.in[slot]) # None
    /\ CheckedSum(o.in[slot]) = reg

\* svs slot: the sum of the slot's inputs equals the sum of its outputs.
svs(o, slot) ==
    /\ CheckedSum(o.in[slot]) # None
    /\ CheckedSum(o.out[slot]) # None
    /\ CheckedSum(o.in[slot]) = CheckedSum(o.out[slot])

\* cnp / cns slot: number of input / output assignments of the slot.
cnp(o, slot) == Len(o.in[slot])
cns(o, slot) == Len(o.out[slot])

\* ---------------------------------------------------------------------------
\* The validation scripts. Each returns Accept or the errno set before the
\* failing test.
\* ---------------------------------------------------------------------------
\* ifa_lib_genesis without "sub.uc a64[1],a64[0]": the inflation rights are
\* compared with the max supply itself.
ifa_lib_genesis_no_sub(o) ==
    LET issued == ldg(o, GS_ISSUED_SUPPLY, 0)
    IN  IF ~sas(o, OS_ASSET, issued) THEN ERRNO_ISSUED_MISMATCH
        ELSE LET maxs == ldg(o, GS_MAX_SUPPLY, 0)
             IN  IF ~sas(o, OS_INFLATION, maxs) THEN ERRNO_INFLATION_MISMATCH
                 ELSE Accept

\* ifa_lib_genesis with the operands of sub.uc exchanged (issued - max).
ifa_lib_genesis_swapped(o) ==
    LET issued == ldg(o, GS_ISSUED_SUPPLY, 0)
    IN  IF ~sas(o, OS_ASSET, issued) THEN ERRNO_ISSUED_MISMATCH
        ELSE LET maxs == ldg(o, GS_MAX_SUPPLY, 0)
                 delta == sub_uc(issued, maxs)
             IN  IF delta = None THEN ERRNO_INFLATION_MISMATCH
                 ELSE IF ~sas(o, OS_INFLATION, delta) THEN ERRNO_INFLATION_MISMATCH
                 ELSE Accept

\* ifa_lib_genesis without the second "put a8[0],ERRNO_INFLATION_MISMATCH".
ifa_lib_genesis_stale_errno(o) ==
    LET issued == ldg(o, GS_ISSUED_SUPPLY, 0)
    IN  IF ~sas(o, OS_ASSET, issued) THEN ERRNO_ISSUED_MISMATCH
        ELSE LET maxs == ldg(o, GS_MAX_SUPPLY, 0)
                 delta == sub_uc(maxs, issued)
             IN  IF delta = None THEN ERRNO_ISSUED_MISMATCH
                 ELSE IF ~sas(o, OS_INFLATION, delta) THEN ERRNO_ISSUED_MISMATCH
                 ELSE Accept

ifa_lib_genesis(o) ==
    LET issued == ldg(o, GS_ISSUED_SUPPLY, 0)                 \* a64[0]
    IN  IF ~sas(o, OS_ASSET, issued) THEN ERRNO_ISSUED_MISMATCH
        ELSE LET maxs == ldg(o, GS_MAX_SUPPLY, 0)             \* a64[1]
                 delta == sub_uc(maxs, issued)                \* a64[0] := a64[1] - a64[0]
             IN  IF delta = None THEN ERRNO_INFLATION_MISMATCH
                 ELSE IF ~sas(o, OS_INFLATION, delta) THEN ERRNO_INFLATION_MISMATCH
                 ELSE Accept

\* ifa_lib_transfer without the link rights validation (cnp, cns, eq.n).
ifa_lib_transfer_no_link_count(o) ==
    IF ~svs(o, OS_ASSET) THEN ERRNO_NON_EQUAL_IN_OUT
    ELSE IF ~svs(o, OS_INFLATION) THEN ERRNO_NON_EQUAL_IN_OUT
    ELSE Accept

\* ifa_lib_transfer without "svs OS_INFLATION".
ifa_lib_transfer_one_slot(o) ==
    IF ~svs(o, OS_ASSET) THEN ERRNO_NON_EQUAL_IN_OUT
    ELSE IF cnp(o, OS_LINK) # cns(o, OS_LINK) THEN ERRNO_NON_EQUAL_IN_OUT
    ELSE Accept

ifa_lib_transfer(o) ==
    IF ~svs(o, OS_ASSET) THEN ERRNO_NON_EQUAL_IN_OUT
    ELSE IF ~svs(o, OS_INFLATION) THEN ERRNO_NON_EQUAL_IN_OUT
    ELSE IF cnp(o, OS_LINK) # cns(o, OS_LINK) THEN ERRNO_NON_EQUAL_IN_OUT
    ELSE Accept

\* ifa_lib_inflation without the first "sas OS_ASSET": the declared issued
\* supply is not compared with the assets created.
ifa_lib_inflation_no_issued_check(o) ==
    LET issued == ldg(o, GS_ISSUED_SUPPLY, 0)
        allowed == ldm(o, MS_ALLOWED_INFLATION)
    IN  IF ~sas(o, OS_INFLATION, allowed) THEN ERRNO_INFLATION_MISMATCH
        ELSE LET expected == add_uc(issued, allowed)
             IN  IF expected = None THEN ERRNO_INFLATION_EXCEEDS_ALLOWANCE
                 ELSE IF ~sps(o, OS_INFLATION, expected)
                      THEN ERRNO_INFLATION_EXCEEDS_ALLOWANCE
                 ELSE Accept

\* ifa_lib_inflation without "add.uc a64[1],a64[0]": the inputs are compared
\* with the allowed inflation alone.
ifa_lib_inflation_no_add(o) ==
    LET issued == ldg(o, GS_ISSUED_SUPPLY, 0)
    IN  IF ~sas(o, OS_ASSET, issued) THEN ERRNO_ISSUED_MISMATCH
        ELSE LET allowed == ldm(o, MS_ALLOWED_INFLATION)
             IN  IF ~sas(o, OS_INFLATION, allowed) THEN ERRNO_INFLATION_MISMATCH
                 ELSE IF ~sps(o, OS_INFLATION, allowed) THEN ERRNO_INFLATION_EXCEEDS_ALLOWANCE
                 ELSE Accept

ifa_lib_inflation(o) ==
    LET issued == ldg(o, GS_ISSUED_SUPPLY, 0)                 \* a64[0], copied to a64[1]
    IN  IF ~sas(o, OS_ASSET, issued) THEN ERRNO_ISSUED_MISMATCH
        ELSE LET allowed == ldm(o, MS_ALLOWED_INFLATION)      \* a64[0]
             IN  IF ~sas(o, OS_INFLATION, allowed) THEN ERRNO_INFLATION_MISMATCH
                 ELSE LET expected == add_uc(issued, allowed) \* a64[0] := a64[1] + a64[0]
                      IN  IF expected = None THEN ERRNO_INFLATION_EXCEEDS_ALLOWANCE
                          ELSE IF ~sps(o, OS_INFLATION, expected)
                               THEN ERRNO_INFLATION_EXCEEDS_ALLOWANCE
                          ELSE Accept

\* The script table (InflatableFungibleAsset::scripts): a validator id resolves
\* to its library.
scripts(lib, o) ==
    CASE lib = LibGenesis -> ifa_lib_genesis(o)
      [] lib = LibTransfer -> ifa_lib_transfer(o)
      [] lib = LibInflation -> ifa_lib_inflation(o)

\* Validation of one operation: the occurrence tables first; the bound
\* validator, when the kind has one, only on a structurally valid operation.
Validate(o) ==
    LET sch == ifa_schema[o.kind]
    IN  IF ~StructOK(o, sch) THEN [result |-> StructuralError, ran |-> FALSE]
        ELSE IF sch.validator = NoValidator THEN [result |-> Accept, ran |-> FALSE]
        ELSE [result |-> scripts(sch.validator, o), ran |-> TRUE]

\* ---------------------------------------------------------------------------
\* Variables
\* ---------------------------------------------------------------------------
VARIABLES
    op,            \* the operation under validation
    result,        \* its verdict: Pending, Accept, StructuralError or an errno
    vmRan,         \* whether the operation's validation script was executed
    globals,       \* contract state: the values of every global slot, in order
    unspent,       \* contract state: the unspent assignments of every owned slot
    declared,      \* history: sum of the issuedSupply values declared by Genesis and Inflation
    createdAsset,  \* history: sum of assetOwner amounts created by Genesis and Inflation
    burnedInfl,    \* history: whether a Burn has consumed inflationAllowance
    linksAccepted  \* history: number of Link transitions accepted

vvars == <<op, result, vmRan>>
cvars == <<globals, unspent, declared, createdAsset, burnedInfl, linksAccepted>>
vars == <<op, result, vmRan, globals, unspent, declared, createdAsset, burnedInfl, linksAccepted>>

\* The contract state before Genesis is imported.
NoContract ==
    /\ globals = [s \in GlobalSlots |-> << >>]
    /\ unspent = [s \in OwnedSlots |-> << >>]
    /\ declared = 0
    /\ createdAsset = 0
    /\ burnedInfl = FALSE
    /\ linksAccepted = 0

\* ---------------------------------------------------------------------------
\* Operations submitted for validation
\* ---------------------------------------------------------------------------
\* n values v of one slot (declarative slots and non-amount globals carry 0).
Rep(n, v) == [i \in 1..n |-> v]

NoMeta == [allowedInflation |-> << >>]
NoGlobals == [spec |-> << >>, terms |-> << >>, issuedSupply |-> << >>, maxSupply |-> << >>,
              rejectListUrl |-> << >>, linkedFromContract |-> << >>, linkedToContract |-> << >>]
Owned(a, i, l) == [assetOwner |-> a, inflationAllowance |-> i, linkRight |-> Rep(l, 0)]
NoOwned == Owned(<< >>, << >>, 0)

\* A Genesis as the contract builder issues it: spec, terms, the two supply
\* globals, optional rejectListUrl / linkedFromContract, and its allocations.
GenOp(issued, maxs, oa, oi, ol, url, from) ==
    [kind |-> TS_GENESIS, meta |-> NoMeta,
     g |-> [NoGlobals EXCEPT !.spec = <<0>>, !.terms = <<0>>, !.issuedSupply = issued,
                             !.maxSupply = maxs, !.rejectListUrl = Rep(url, 0),
                             !.linkedFromContract = Rep(from, 0)],
     in |-> NoOwned, out |-> Owned(oa, oi, ol)]

TrOp(ia, ii, il, oa, oi, ol) ==
    [kind |-> TS_TRANSFER, meta |-> NoMeta, g |-> NoGlobals,
     in |-> Owned(ia, ii, il), out |-> Owned(oa, oi, ol)]

InfOp(issued, allowed, ii, oa, oi) ==
    [kind |-> TS_INFLATION, meta |-> [allowedInflation |-> allowed],
     g |-> [NoGlobals EXCEPT !.issuedSupply = issued],
     in |-> Owned(<< >>, ii, 0), out |-> Owned(oa, oi, 0)]

BurnOp(ia, ii, il) ==
    [kind |-> TS_BURN, meta |-> NoMeta, g |-> NoGlobals,
     in |-> Owned(ia, ii, il), out |-> NoOwned]

LinkOp(ia, ii, il, oa, oi, ol, nto, nfrom, nmeta) ==
    [kind |-> TS_LINK, meta |-> [allowedInflation |-> Rep(nmeta, 1)],
     g |-> [NoGlobals EXCEPT !.linkedToContract = Rep(nto, 0),
                             !.linkedFromContract = Rep(nfrom, 0)],
     in |-> Owned(ia, ii, il), out |-> Owned(oa, oi, ol)]

\* The same operation with n values in one slot of one role.
SetCount(o, role, slot, n) ==
    LET v == IF slot \in {GS_ISSUED_SUPPLY, GS_MAX_SUPPLY, MS_ALLOWED_INFLATION, OS_ASSET, OS_INFLATION}
             THEN 1 ELSE 0
    IN  CASE role = "meta" -> [o EXCEPT !.meta[slot] = Rep(n, v)]
          [] role = "g" -> [o EXCEPT !.g[slot] = Rep(n, v)]
          [] role = "in" -> [o EXCEPT !.in[slot] = Rep(n, v)]
          [] role = "out" -> [o EXCEPT !.out[slot] = Rep(n, v)]

GenesisRoleSlots == ({"meta"} \X MetaSlots) \cup ({"g"} \X GlobalSlots) \cup ({"out"} \X OwnedSlots)
RoleSlots == GenesisRoleSlots \cup ({"in"} \X OwnedSlots)

\* Amounts drawn for assignments: the small ones and the largest one.
Samples == {0, 1, 2, MaxAmount}
Bit == {0, 1}

\* Assignment lists are drawn in non-decreasing order: the scripts only sum
\* and count them.
Lists ==
    {s \in UNION {[1..k -> Samples] : k \in 0..MaxAssign} :
        \A i \in 1..(Len(s) - 1) : s[i] <= s[i + 1]}
ShortLists == {<< >>, <<1>>, <<2>>}

\* The same operations with one slot count varied, structurally valid or not.
Varied(o, pairs) == \E p \in pairs, n \in 0..MaxCount : op = SetCount(o, p[1], p[2], n)

GenesisOps ==
    \/ \E a \in Amount, b \in Amount, oa \in Lists, oi \in Lists :
          op = GenOp(<<a>>, <<b>>, oa, oi, 0, 0, 0)
    \/ \E a \in {1, 2}, b \in {1, 2}, c \in {1, 2}, l \in Bit, u \in Bit, f \in Bit :
          Varied(GenOp(<<a>>, <<b>>, <<c>>, <<1>>, l, u, f), GenesisRoleSlots)

TransferOps ==
    \/ \E ia \in Lists, oa \in Lists, ii \in ShortLists, oi \in ShortLists, l \in Bit :
          op = TrOp(ia, ii, l, oa, oi, l)
    \/ \E ia \in ShortLists, oa \in ShortLists, ii \in Lists, oi \in Lists, l \in Bit :
          op = TrOp(ia, ii, l, oa, oi, l)
    \/ \E ia \in {<<1>>, <<2>>}, oa \in {<<1>>, <<2>>}, ii \in {<< >>, <<1>>}, il \in Bit, ol \in Bit :
          Varied(TrOp(ia, ii, il, oa, ii, ol), RoleSlots)

InflationOps ==
    \/ \E x \in Amount, y \in Amount :
          \E ii \in Lists \cup {<<x, y>>},
             oa \in {<<x>>, <<0, x>>, <<1>>, <<1, MaxAmount>>, << >>},
             oi \in {<<y>>, <<0, y>>, <<1>>, <<1, MaxAmount>>, << >>} :
             op = InfOp(<<x>>, <<y>>, ii, oa, oi)
    \/ \E ii \in {<<2>>, <<1>>}, oa \in {<<1>>, <<2>>} :
          Varied(InfOp(<<1>>, <<1>>, ii, oa, <<1>>), RoleSlots)

BurnOps ==
    \/ \E ia \in Lists, ii \in Lists, l \in Bit : op = BurnOp(ia, ii, l)
    \/ \E ia \in ShortLists, ii \in ShortLists, l \in Bit : Varied(BurnOp(ia, ii, l), RoleSlots)

LinkOps ==
    \/ \E ia \in {<< >>, <<1>>}, ii \in {<< >>, <<1>>}, oa \in {<< >>, <<1>>}, oi \in {<< >>, <<1>>},
          il \in 0..MaxCount, ol \in 0..MaxCount, nto \in 0..MaxCount, nfrom \in Bit, nmeta \in Bit :
          op = LinkOp(ia, ii, il, oa, oi, ol, nto, nfrom, nmeta)
    \/ Varied(LinkOp(<< >>, << >>, 1, << >>, << >>, 0, 1, 0, 0), RoleSlots)

Candidates == GenesisOps \/ TransferOps \/ InflationOps \/ BurnOps \/ LinkOps

\* ---------------------------------------------------------------------------
\* Validation of single operations: every candidate operation is submitted
\* once and validated by the action of its kind.
\* ---------------------------------------------------------------------------
InitValidate ==
    /\ Candidates
    /\ result = Pending
    /\ vmRan = FALSE
    /\ NoContract

ValidateGenesis ==
    /\ result = Pending
    /\ op.kind = TS_GENESIS
    /\ result' = Validate(op).result
    /\ vmRan' = Validate(op).ran
    /\ UNCHANGED <<op, cvars>>

ValidateTransfer ==
    /\ result = Pending
    /\ op.kind = TS_TRANSFER
    /\ result' = Validate(op).result
    /\ vmRan' = Validate(op).ran
    /\ UNCHANGED <<op, cvars>>

ValidateInflation ==
    /\ result = Pending
    /\ op.kind = TS_INFLATION
    /\ result' = Validate(op).result
    /\ vmRan' = Validate(op).ran
    /\ UNCHANGED <<op, cvars>>

ValidateBurn ==
    /\ result = Pending
    /\ op.kind = TS_BURN
    /\ result' = Validate(op).result
    /\ vmRan' = Validate(op).ran
    /\ UNCHANGED <<op, cvars>>

ValidateLink ==
    /\ result = Pending
    /\ op.kind = TS_LINK
    /\ result' = Validate(op).result
    /\ vmRan' = Validate(op).ran
    /\ UNCHANGED <<op, cvars>>

NextValidate ==
    \/ ValidateGenesis
    \/ ValidateTransfer
    \/ ValidateInflation
    \/ ValidateBurn
    \/ ValidateLink

SpecValidate == InitValidate /\ [][NextValidate]_vars

\* ---------------------------------------------------------------------------
\* The contract state: operations accepted by the validation are imported
\* into it, spending unspent assignments and creating new ones.
\* ---------------------------------------------------------------------------
RECURSIVE Sum(_)
\* The mathematical sum of a list of amounts (no register, no overflow).
Sum(s) == IF Len(s) = 0 THEN 0 ELSE Head(s) + Sum(Tail(s))

RECURSIVE Insert(_, _)
Insert(x, s) ==
    IF Len(s) = 0 \/ x <= Head(s) THEN <<x>> \o s ELSE <<Head(s)>> \o Insert(x, Tail(s))

RECURSIVE SortSeq(_)
\* The unspent assignments of a slot are kept as a multiset (a sorted list).
SortSeq(s) == IF Len(s) = 0 THEN << >> ELSE Insert(Head(s), SortSeq(Tail(s)))

RECURSIVE Sub(_, _, _)
\* The elements of s at the indices I, from index k on.
Sub(s, I, k) ==
    IF k > Len(s) THEN << >>
    ELSE (IF k \in I THEN <<s[k]>> ELSE << >>) \o Sub(s, I, k + 1)

\* The ways of spending unspent assignments of a slot: the spent ones and the
\* ones kept, as a pair.
Spend(slot) ==
    {<<Sub(unspent[slot], I, 1), Sub(unspent[slot], (1..Len(unspent[slot])) \ I, 1)>> :
        I \in SUBSET (1..Len(unspent[slot]))}
NoSpend(slot) == <<<< >>, unspent[slot]>>

\* Amount wrappers of IfaWrapper over the contract state.
issued_supply == globals[GS_ISSUED_SUPPLY]
total_issued_supply == Sum(issued_supply)
max_supply == Sum(globals[GS_MAX_SUPPLY])

\* Contract ids named by the link globals: the contract this one is linked
\* from (set at Genesis) and the contracts a Link may point to.
FromContractId == 1
ToContractIds == {2, 3}

\* Result<Option<ContractId>, LinkError> of the link queries.
OkNone == [tag |-> "None", val |-> 0]
OkSome(id) == [tag |-> "Some", val |-> id]
ErrMultipleValues == [tag |-> "MultipleValues", val |-> 0]

extract_global_single_val(global) ==
    IF Len(global) = 0 THEN OkNone
    ELSE IF Len(Tail(global)) > 0 THEN ErrMultipleValues
    ELSE OkSome(Head(global))

link_to == extract_global_single_val(globals[GS_LINKED_TO_CONTRACT])
link_from == extract_global_single_val(globals[GS_LINKED_FROM_CONTRACT])

\* The contract exists once its Genesis is in the state.
Issued == Len(globals[GS_NOMINAL]) > 0

\* Assignments of the contract state carry positive amounts.
Positive(s) == \A i \in 1..Len(s) : s[i] \in 1..MaxAmount
PositiveLists == {s \in Lists : Positive(s)}

Init ==
    /\ op = [kind |-> "none"]
    /\ result = Pending
    /\ vmRan = FALSE
    /\ NoContract

\* Import of the accepted operation o, which spends the unspent assetOwner
\* assignments sa[1], the unspent inflationAllowance assignments si[1] and nl
\* unspent linkRight assignments.
Import(o, sa, si, nl) ==
    /\ Positive(o.out[OS_ASSET]) /\ Positive(o.out[OS_INFLATION])
    /\ Len(sa[2]) + Len(o.out[OS_ASSET]) <= MaxUnspent
    /\ Len(si[2]) + Len(o.out[OS_INFLATION]) <= MaxUnspent
    /\ Validate(o).result = Accept
    /\ globals' = [s \in GlobalSlots |-> globals[s] \o o.g[s]]
    /\ unspent' = [assetOwner |-> SortSeq(sa[2] \o o.out[OS_ASSET]),
                   inflationAllowance |-> SortSeq(si[2] \o o.out[OS_INFLATION]),
                   linkRight |-> Rep(Len(unspent[OS_LINK]) - nl + Len(o.out[OS_LINK]), 0)]
    /\ declared' = declared +
           (IF o.kind \in {TS_GENESIS, TS_INFLATION} THEN Sum(o.g[GS_ISSUED_SUPPLY]) ELSE 0)
    /\ createdAsset' = createdAsset +
           (IF o.kind \in {TS_GENESIS, TS_INFLATION} THEN Sum(o.out[OS_ASSET]) ELSE 0)
    /\ burnedInfl' = (burnedInfl \/ (o.kind = TS_BURN /\ Len(o.in[OS_INFLATION]) > 0))
    /\ linksAccepted' = linksAccepted + (IF o.kind = TS_LINK THEN 1 ELSE 0)
    /\ UNCHANGED vvars

\* Genesis is the unique entry point: it is issued once, on no contract state.
Genesis ==
    /\ ~Issued
    /\ \E a \in Amount, b \in Amount, oa \in PositiveLists, oi \in PositiveLists,
          ol \in Bit, from \in Bit :
          Import([GenOp(<<a>>, <<b>>, oa, oi, ol, 0, from)
                     EXCEPT !.g.linkedFromContract = Rep(from, FromContractId)],
                 NoSpend(OS_ASSET), NoSpend(OS_INFLATION), 0)

\* A transfer of assetOwner assignments, of inflationAllowance assignments,
\* of the linkRight, or an attempt to move value between the two fungible
\* slots or to declare a supply.
Transfer ==
    /\ Issued
    /\ \/ \E sa \in Spend(OS_ASSET), oa \in PositiveLists :
             Import(TrOp(sa[1], << >>, 0, oa, << >>, 0), sa, NoSpend(OS_INFLATION), 0)
       \/ \E si \in Spend(OS_INFLATION), oi \in PositiveLists :
             Import(TrOp(<< >>, si[1], 0, << >>, oi, 0), NoSpend(OS_ASSET), si, 0)
       \/ \E il \in 0..Len(unspent[OS_LINK]), ol \in Bit :
             Import(TrOp(<< >>, << >>, il, << >>, << >>, ol),
                    NoSpend(OS_ASSET), NoSpend(OS_INFLATION), il)
       \/ \E sa \in Spend(OS_ASSET), si \in Spend(OS_INFLATION), gi \in {<< >>, <<1>>} :
             Import([TrOp(sa[1], si[1], 0, si[1], sa[1], 0) EXCEPT !.g.issuedSupply = gi],
                    sa, si, 0)

\* An inflation spending unspent inflationAllowance: it declares the newly
\* issued supply x and the allowance y left for later.
Inflation ==
    /\ Issued
    /\ Len(issued_supply) < MaxIssuances
    /\ \E si \in Spend(OS_INFLATION), x \in Amount :
          \E y \in {0, Sum(si[1]), Sum(si[1]) - x} \cap Amount, oa \in {<<x>>, <<1>>} :
             Import(InfOp(<<x>>, <<y>>, si[1], oa, IF y = 0 THEN << >> ELSE <<y>>),
                    NoSpend(OS_ASSET), si, 0)

Burn ==
    /\ Issued
    /\ \E sa \in Spend(OS_ASSET), si \in Spend(OS_INFLATION),
          il \in 0..Len(unspent[OS_LINK]), gi \in {<< >>, <<1>>} :
          Import([BurnOp(sa[1], si[1], il) EXCEPT !.g.issuedSupply = gi], sa, si, il)

Link ==
    /\ Issued
    /\ \E il \in 0..Len(unspent[OS_LINK]), nto \in 0..MaxCount, gi \in {<< >>, <<1>>},
          id \in ToContractIds :
          Import([LinkOp(<< >>, << >>, il, << >>, << >>, 0, nto, 0, 0)
                     EXCEPT !.g.issuedSupply = gi, !.g.linkedToContract = Rep(nto, id)],
                 NoSpend(OS_ASSET), NoSpend(OS_INFLATION), il)

Next ==
    \/ Genesis
    \/ Transfer
    \/ Inflation
    \/ Burn
    \/ Link

Spec == Init /\ [][Next]_vars

\* ---------------------------------------------------------------------------
\* Properties of the validation of single operations (SpecValidate)
\* ---------------------------------------------------------------------------
Done == result # Pending
Validated(kind) == Done /\ op.kind = kind
IssuedS == op.g.issuedSupply[1]
MaxS == op.g.maxSupply[1]
Allowed == op.meta.allowedInflation[1]
InA == Sum(op.in.assetOwner)
InI == Sum(op.in.inflationAllowance)
OutA == Sum(op.out.assetOwner)
OutI == Sum(op.out.inflationAllowance)

\* C1: a structurally valid Genesis declaring issuedSupply = a <= maxSupply = b
\* whose assetOwner outputs sum to a and whose inflationAllowance outputs sum
\* to b - a is accepted (also with no inflationAllowance output when a = b and
\* no assetOwner output when a = 0), and every accepted Genesis satisfies both
\* sum equalities.
C1_GenesisSums ==
    (Validated(TS_GENESIS) /\ StructOK(op, GenesisSchema)) =>
        /\ (IssuedS <= MaxS /\ OutA = IssuedS /\ OutI = MaxS - IssuedS) => result = Accept
        /\ result = Accept => (OutA = IssuedS /\ OutI = MaxS - IssuedS)

C1_Witness ==
    /\ Validated(TS_GENESIS)
    /\ result = Accept
    /\ 0 < IssuedS /\ IssuedS < MaxS
    /\ Len(op.out.assetOwner) = 2
    /\ Len(op.out.inflationAllowance) = 2

\* C2 as stated: a structurally valid Genesis with maxSupply < issuedSupply is
\* rejected with InflationMismatch whatever its assignments are.
C2_Original ==
    (Validated(TS_GENESIS) /\ StructOK(op, GenesisSchema) /\ MaxS < IssuedS) =>
        result = ERRNO_INFLATION_MISMATCH

\* C2 amended: a structurally valid Genesis with maxSupply < issuedSupply is
\* always rejected: with InflationMismatch when its assetOwner outputs sum to
\* issuedSupply, with IssuedMismatch when they do not (the issued sum is
\* checked first); the inflationAllowance values never matter.
C2_GenesisMaxBelowIssued ==
    (Validated(TS_GENESIS) /\ StructOK(op, GenesisSchema) /\ MaxS < IssuedS) =>
        result = (IF OutA = IssuedS THEN ERRNO_INFLATION_MISMATCH ELSE ERRNO_ISSUED_MISMATCH)

C2_Witness ==
    /\ Validated(TS_GENESIS)
    /\ StructOK(op, GenesisSchema)
    /\ MaxS < IssuedS
    /\ OutA = IssuedS
    /\ OutI = (MaxS - IssuedS) % Modulus
    /\ result = ERRNO_INFLATION_MISMATCH

\* C3: a structurally valid Inflation declaring issuedSupply = X and
\* allowedInflation = Y, with assetOwner outputs summing to X and
\* inflationAllowance outputs summing to Y, is accepted when its
\* inflationAllowance inputs sum to X + Y, and is rejected with
\* InflationExceedsAllowance when they sum to anything else or when X + Y
\* overflows the amount register.
C3_Inflation ==
    (Validated(TS_INFLATION) /\ StructOK(op, InflationSchema) /\ OutA = IssuedS /\ OutI = Allowed) =>
        result = (IF IssuedS + Allowed <= MaxAmount /\ InI = IssuedS + Allowed
                  THEN Accept ELSE ERRNO_INFLATION_EXCEEDS_ALLOWANCE)

C3_Witness ==
    /\ Validated(TS_INFLATION)
    /\ result = Accept
    /\ IssuedS > 0 /\ Allowed > 0
    /\ Len(op.in.inflationAllowance) = 2

\* C4: a structurally valid Transfer is accepted iff its assetOwner inputs and
\* outputs have the same sum, its inflationAllowance inputs and outputs have
\* the same sum (each slot on its own, no sum overflowing the register) and it
\* has as many linkRight inputs as outputs; otherwise it is rejected with
\* NonEqualInOut.
C4_Transfer ==
    (Validated(TS_TRANSFER) /\ StructOK(op, TransferSchema)) =>
        result = (IF /\ InA = OutA /\ InA <= MaxAmount
                     /\ InI = OutI /\ InI <= MaxAmount
                     /\ Len(op.in.linkRight) = Len(op.out.linkRight)
                  THEN Accept ELSE ERRNO_NON_EQUAL_IN_OUT)

C4_Witness ==
    /\ Validated(TS_TRANSFER)
    /\ result = Accept
    /\ Len(op.in.assetOwner) = 1 /\ Len(op.out.assetOwner) = 2 /\ InA > 0
    /\ Len(op.in.inflationAllowance) = 1 /\ InI > 0
    /\ Len(op.in.linkRight) = 1

\* C5: a Burn with no metadata, no global, no output and at most one linkRight
\* input (any number of assetOwner and inflationAllowance inputs of any
\* amounts) is accepted; no script runs for a Burn and no conservation error
\* is ever its verdict.
C5_Burn ==
    Validated(TS_BURN) =>
        /\ ( /\ Len(op.meta.allowedInflation) = 0
             /\ \A s \in GlobalSlots : Len(op.g[s]) = 0
             /\ \A s \in OwnedSlots : Len(op.out[s]) = 0
             /\ Len(op.in.linkRight) <= 1 ) => result = Accept
        /\ result \notin ConservationErrors
        /\ ~vmRan

C5_Witness ==
    /\ Validated(TS_BURN)
    /\ result = Accept
    /\ Len(op.in.assetOwner) = 2 /\ InA > MaxAmount
    /\ Len(op.in.inflationAllowance) = 1
    /\ Len(op.in.linkRight) = 1

C8_NoWraparound ==
    /\ (Validated(TS_GENESIS) /\ StructOK(op, GenesisSchema)) =>
          /\ OutA > MaxAmount => result = ERRNO_ISSUED_MISMATCH
          /\ (OutA = IssuedS /\ (MaxS < IssuedS \/ OutI > MaxAmount)) =>
                result = ERRNO_INFLATION_MISMATCH
          /\ result = Accept => (OutA <= MaxAmount /\ OutI <= MaxAmount /\ IssuedS <= MaxS)
    /\ (Validated(TS_TRANSFER) /\ StructOK(op, TransferSchema)) =>
          /\ (InA > MaxAmount \/ OutA > MaxAmount \/ InI > MaxAmount \/ OutI > MaxAmount) =>
                result = ERRNO_NON_EQUAL_IN_OUT
    /\ (Validated(TS_INFLATION) /\ StructOK(op, InflationSchema)) =>
          /\ OutA > MaxAmount => result = ERRNO_ISSUED_MISMATCH
          /\ (OutA = IssuedS /\ OutI > MaxAmount) => result = ERRNO_INFLATION_MISMATCH
          /\ (OutA = IssuedS /\ OutI = Allowed /\ (IssuedS + Allowed > MaxAmount \/ InI > MaxAmount)) =>
                result = ERRNO_INFLATION_EXCEEDS_ALLOWANCE
          /\ result = Accept =>
                (OutA <= MaxAmount /\ OutI <= MaxAmount /\ InI <= MaxAmount
                 /\ IssuedS + Allowed <= MaxAmount)

C8_Witness ==
    /\ Validated(TS_INFLATION)
    /\ StructOK(op, InflationSchema)
    /\ OutA = IssuedS /\ OutI = Allowed
    /\ IssuedS + Allowed > MaxAmount
    /\ InI = (IssuedS + Allowed) % Modulus
    /\ result = ERRNO_INFLATION_EXCEEDS_ALLOWANCE

\* C9 as stated: a Link is accepted iff it has exactly one linkRight input, no
\* output of any kind and exactly one linkedToContract value; no conservation
\* error is ever its verdict.
C9_Original ==
    Validated(TS_LINK) =>
        /\ result = Accept <=>
              /\ Len(op.in.linkRight) = 1
              /\ \A s \in OwnedSlots : Len(op.out[s]) = 0
              /\ Len(op.g.linkedToContract) = 1
        /\ result \notin ConservationErrors

\* C9 amended: a Link is accepted iff its only input is exactly one linkRight,
\* it has no output of any kind, and its only global value is exactly one
\* linkedToContract, with no metadata; no script runs for a Link and no
\* conservation error is ever its verdict.
C9_Link ==
    Validated(TS_LINK) =>
        /\ result = Accept <=>
              /\ Len(op.in.linkRight) = 1
              /\ Len(op.in.assetOwner) = 0 /\ Len(op.in.inflationAllowance) = 0
              /\ \A s \in OwnedSlots : Len(op.out[s]) = 0
              /\ Len(op.g.linkedToContract) = 1
              /\ \A s \in GlobalSlots \ {GS_LINKED_TO_CONTRACT} : Len(op.g[s]) = 0
              /\ Len(op.meta.allowedInflation) = 0
        /\ result \notin ConservationErrors
        /\ ~vmRan

C9_Witness ==
    /\ Validated(TS_LINK)
    /\ result = Accept
    /\ Len(op.in.linkRight) = 1
    /\ Len(op.g.linkedToContract) = 1

\* ---------------------------------------------------------------------------
\* Properties of the contract state (Spec)
\* ---------------------------------------------------------------------------
UnspentAsset == Sum(unspent[OS_ASSET])
UnspentInflation == Sum(unspent[OS_INFLATION])

\* C7: over every contract state, total_issued_supply is the sum of the
\* issuedSupply values declared by Genesis and by the accepted Inflations
\* (Transfer, Burn and Link add nothing to it), and that is the sum of the
\* assetOwner amounts created by the outputs of Genesis and Inflation; right
\* after Genesis it is the issuedSupply Genesis declared.
C7_TotalIssuedSupply ==
    /\ total_issued_supply = declared
    /\ total_issued_supply = createdAsset
    /\ (Issued /\ Len(issued_supply) = 1) => total_issued_supply = issued_supply[1]

C7_Witness ==
    /\ issued_supply = <<2, 1>>
    /\ max_supply = 3
    /\ total_issued_supply = 3
    /\ UnspentAsset = 3

\* C10: in every contract state, total_issued_supply plus the unspent
\* inflationAllowance is at most max_supply, and equal to it as long as no
\* Burn has spent inflationAllowance; so total_issued_supply never exceeds
\* max_supply, the unspent assetOwner amounts never exceed
\* total_issued_supply, and the sum of the issuedSupply values stays within
\* the amount register.
C10_SupplyCap ==
    /\ total_issued_supply + UnspentInflation <= max_supply
    /\ ~burnedInfl => total_issued_supply + UnspentInflation = max_supply
    /\ total_issued_supply <= max_supply
    /\ UnspentAsset <= total_issued_supply
    /\ total_issued_supply <= MaxAmount

C10_Witness ==
    /\ Len(issued_supply) = 2
    /\ issued_supply[2] > 0
    /\ burnedInfl
    /\ total_issued_supply + UnspentInflation < max_supply
    /\ UnspentAsset < total_issued_supply

\* C11: in every contract state there is at most one unspent linkRight
\* (Genesis creates at most one, Transfer keeps the count, Burn and Link only
\* spend it), at most one Link has been accepted, linkedToContract and
\* linkedFromContract each hold at most one value, and link_to / link_from
\* never answer MultipleValues: they answer None when the global is absent
\* and its single contract id otherwise.
C11_LinkRightUnique ==
    /\ Len(unspent[OS_LINK]) <= 1
    /\ linksAccepted <= 1
    /\ Len(globals[GS_LINKED_TO_CONTRACT]) <= 1
    /\ Len(globals[GS_LINKED_FROM_CONTRACT]) <= 1
    /\ link_to # ErrMultipleValues
    /\ link_from # ErrMultipleValues
    /\ link_to = (IF Len(globals[GS_LINKED_TO_CONTRACT]) = 0 THEN OkNone
                  ELSE OkSome(globals[GS_LINKED_TO_CONTRACT][1]))
    /\ link_from = (IF Len(globals[GS_LINKED_FROM_CONTRACT]) = 0 THEN OkNone
                    ELSE OkSome(globals[GS_LINKED_FROM_CONTRACT][1]))
    /\ Len(globals[GS_LINKED_TO_CONTRACT]) = linksAccepted

C11_Witness ==
    /\ linksAccepted = 1
    /\ Len(unspent[OS_LINK]) = 0
    /\ \E id \in ToContractIds : link_to = OkSome(id)
    /\ link_from = OkSome(FromContractId)

====
